---- MODULE Spec2Model ----
(***************************************************************************)
(* Molecular Evolution Simulation - Speciation Event (Genetic Drift).      *)
(* A model of genetic_drift_simulation.py: the prompts of main, the        *)
(* generation loops of main with and without a split, and the functions    *)
(* they call.                                                              *)
(*                                                                         *)
(* A str is a sequence of one-letter strings.  A float is an exact         *)
(* fraction <<numerator, denominator>> in lowest terms.  A mutation rate   *)
(* and a draw of random.random() are counted in units of 1/Ticks.          *)
(***************************************************************************)
EXTENDS Integers, Sequences, FiniteSets, TLC

\* ------------------------------------------------------------------ bounds

\* The largest population size and generation number typed.
MaxN == 3
MaxG == 3
\* The largest sequence length typed, and the largest number of sites of a
\* population, N times L.
MaxL == 2
MaxSites == 3
\* random.random() returns k/Ticks for k in 0..Ticks-1, a value of [0, 1).
Ticks == 3
\* The longest string handed to mutate called on its own.
MaxString == 2
\* The longest population handed to split_populations called on its own.
MaxCall == 10

\* ------------------------------------------------------------ the alphabet

Nucleotides == {"A", "C", "T", "G"}

\* nucleotide_choices with 'A' among the characters to choose from.
nucleotide_choices_with_A == <<"A", "C", "T", "G">>

\* nucleotide_choices = ['C', 'T', 'G']
nucleotide_choices == <<"C", "T", "G">>

\* random.random(): the values it can return.
Likelihoods == 0..(Ticks - 1)

\* random.choice(nucleotide_choices): the indexes it can pick.
Choices == 1..Len(nucleotide_choices)

\* The rates typed at the prompt: 0, 1/Ticks and 1, and two invalid ones.
One == Ticks
ValidRates == {0, 1, One}
TypedRates == ValidRates \cup {-1, One + 1}

\* The integers typed at the prompts for N, g and G.
TypedSizes(max) == (-1)..max

\* The integers typed at the prompt for L, once N is typed.
TypedLengths(N) ==
    LET most == MaxSites \div N
    IN  (-1)..(IF most < MaxL THEN most ELSE MaxL)

\* The answers typed at the Y or N prompt.
TypedFlags == {"Y", "n", "x"}

\* str.upper() on the answers above.
Upper(s) == IF s = "y" THEN "Y" ELSE IF s = "n" THEN "N" ELSE IF s = "x" THEN "X" ELSE s

\* ------------------------------------------------------------------ floats

RECURSIVE GCD(_, _)
GCD(a, b) == IF b = 0 THEN a ELSE GCD(b, a % b)

Abs(x) == IF x < 0 THEN -x ELSE x

\* The fraction n/d in lowest terms with a positive denominator (d # 0).
Frac(n, d) ==
    LET k == GCD(Abs(n), Abs(d))
        s == IF d < 0 THEN -1 ELSE 1
    IN  <<(s * n) \div k, (s * d) \div k>>

Whole(n) == <<n, 1>>

\* x / y of two numbers; ZeroDivisionError when y is zero.
ZeroDivisionError == <<0, 0>>
Div(x, y) ==
    IF x = ZeroDivisionError \/ y = ZeroDivisionError \/ y[1] = 0
    THEN ZeroDivisionError
    ELSE Frac(x[1] * y[2], x[2] * y[1])

\* x < y for an int x and a number y.
IntLess(x, y) == x * y[2] < y[1]

\* --------------------------------------------------------------- functions

\* initialize_original_sequence: N strings of L times "A".
initialize_original_sequence(population_size_N, num_of_base_pairs_L) ==
    [index \in 1..population_size_N |-> [nucleotide \in 1..num_of_base_pairs_L |-> "A"]]

\* mutate_site with its two branches exchanged.
mutate_site_swapped(mutation_rate, nucleotide, likelihood, choice) ==
    IF likelihood > mutation_rate
    THEN nucleotide_choices[choice]
    ELSE nucleotide

\* One pass of the loop of mutate: the character appended for one position,
\* given the two draws made for it.
mutate_site(mutation_rate, nucleotide, likelihood, choice) ==
    IF likelihood <= mutation_rate
    THEN nucleotide_choices[choice]
    ELSE nucleotide

\* mutate with the draws it makes given: likelihoods[i] and choices[i] are the
\* draws for position i.
mutate_with(mutation_rate, generation_sequence, likelihoods, choices) ==
    [index \in 1..Len(generation_sequence) |->
        mutate_site(mutation_rate, generation_sequence[index],
                    likelihoods[index], choices[index])]

\* The characters one pass of the loop of mutate can append, over its draws.
mutate_site_any(mutation_rate, nucleotide) ==
    { mutate_site(mutation_rate, nucleotide, likelihood, choice) :
        likelihood \in Likelihoods, choice \in Choices }

\* mutate: every string it can return, over all draws; the loop appends one
\* character for each index of generation_sequence.
RECURSIVE mutate_from(_, _, _)
mutate_from(mutation_rate, generation_sequence, index) ==
    IF index > Len(generation_sequence)
    THEN {<<>>}
    ELSE { <<first>> \o rest :
             first \in mutate_site_any(mutation_rate, generation_sequence[index]),
             rest \in mutate_from(mutation_rate, generation_sequence, index + 1) }

\* mutate with its loop starting one position late.
mutate_skips_first(mutation_rate, generation_sequence) ==
    mutate_from(mutation_rate, generation_sequence, 2)

mutate(mutation_rate, generation_sequence) ==
    mutate_from(mutation_rate, generation_sequence, 1)

\* reproduce: every list it can return; element index is mutate of element
\* index of the previous generation.
RECURSIVE reproduce_from(_, _, _)
reproduce_from(mutation_rate, prev_generation, index) ==
    IF index > Len(prev_generation)
    THEN {<<>>}
    ELSE { <<first>> \o rest :
             first \in mutate(mutation_rate, prev_generation[index]),
             rest \in reproduce_from(mutation_rate, prev_generation, index + 1) }

\* reproduce with its loop starting one element late.
reproduce_skips_first(mutation_rate, prev_generation) ==
    reproduce_from(mutation_rate, prev_generation, 2)

reproduce(mutation_rate, prev_generation) ==
    reproduce_from(mutation_rate, prev_generation, 1)

\* compare_sequences raises IndexError when sequence2 is the shorter one.
compare_raises(sequence1, sequence2) == Len(sequence1) > Len(sequence2)

\* compare_sequences comparing every character of sequence1 with the first of
\* sequence2.
compare_sequences_first_only(sequence1, sequence2) ==
    Cardinality({ index \in 1..Len(sequence1) :
                    index <= Len(sequence2) /\ sequence1[index] # sequence2[1] })

\* compare_sequences: the number of indexes of sequence1 at which the two differ.
compare_sequences(sequence1, sequence2) ==
    Cardinality({ index \in 1..Len(sequence1) :
                    index <= Len(sequence2) /\ sequence1[index] # sequence2[index] })

\* The sum of compare_sequences over the pairs index < index2.
RECURSIVE SumFrom(_, _, _)
SumFrom(generation, index, index2) ==
    IF index > Len(generation) THEN 0
    ELSE IF index2 > Len(generation) THEN SumFrom(generation, index + 1, index + 2)
    ELSE compare_sequences(generation[index], generation[index2])
         + SumFrom(generation, index, index2 + 1)

sum_of_distances(generation) == SumFrom(generation, 1, 2)

\* genetic_distance: (sum_of_distances / population_size_N) / num_of_base_pairs_L,
\* population_size_N a number (an int, or N / 2).  The sum and the quotient by
\* population_size_N are each computed once, as values.
genetic_distance(generation, population_size_N, num_of_base_pairs_L) ==
    CHOOSE average_distance \in
        { Div(per_individual, Whole(num_of_base_pairs_L)) :
            per_individual \in { Div(Whole(total), population_size_N) :
                                   total \in {sum_of_distances(generation)} } } : TRUE

\* The elements of list whose index is in the set indexes, in their order.
RECURSIVE KeepFrom(_, _, _)
KeepFrom(list, indexes, index) ==
    IF index > Len(list) THEN <<>>
    ELSE (IF index \in indexes THEN <<list[index]>> ELSE <<>>)
         \o KeepFrom(list, indexes, index + 1)

\* split_populations with index <= population_size_N / 2.
split_populations_inclusive(generation_sequence, population_size_N) ==
    LET first == { index \in 1..Len(generation_sequence) :
                     (index - 1) * 2 <= population_size_N }
        second == (1..Len(generation_sequence)) \ first
    IN  <<KeepFrom(generation_sequence, first, 1), KeepFrom(generation_sequence, second, 1)>>

\* split_populations: the element at index (from 0) goes to population1 when
\* index < population_size_N / 2, and to population2 otherwise.
split_populations(generation_sequence, population_size_N) ==
    LET first == { index \in 1..Len(generation_sequence) :
                     IntLess(index - 1, Div(Whole(population_size_N), Whole(2))) }
        second == (1..Len(generation_sequence)) \ first
    IN  <<KeepFrom(generation_sequence, first, 1), KeepFrom(generation_sequence, second, 1)>>

\* ------------------------------------------------------------------- state

VARIABLES
    pc,                      \* where main is
    population_size_N,       \* the five values typed, then converted
    num_of_base_pairs_L,
    mutation_rate,
    generation_g,
    total_generations_G,
    list_all_generations,    \* the answer to the Y or N prompt
    generation,              \* the loop variable of the running for loop
    generation_number,
    new_generation_sequence,
    population1,
    population2,
    generations,             \* the log: generation numbers ...
    avg_genetic_distances,   \* ... and the distance logged with each
    final_display,           \* what is printed under the last header when the answer is N
    reproduce_calls,         \* how many times reproduce has returned
    split_calls,             \* how many times split_populations has returned
    call                     \* a function called on its own: its name, arguments and result

vars == <<pc, population_size_N, num_of_base_pairs_L, mutation_rate, generation_g,
          total_generations_G, list_all_generations, generation, generation_number,
          new_generation_sequence, population1, population2, generations,
          avg_genetic_distances, final_display, reproduce_calls, split_calls, call>>

typed == <<population_size_N, num_of_base_pairs_L, mutation_rate, generation_g,
           total_generations_G, list_all_generations>>

run == <<generation, generation_number, new_generation_sequence, population1,
         population2, generations, avg_genetic_distances, final_display,
         reproduce_calls, split_calls>>

NoCall == [op |-> "none"]

\* Nothing is typed yet and no list exists.
Blank ==
    /\ population_size_N = 0
    /\ num_of_base_pairs_L = 0
    /\ mutation_rate = 0
    /\ generation_g = 0
    /\ total_generations_G = 0
    /\ list_all_generations = ""
    /\ generation = 0
    /\ generation_number = 0
    /\ new_generation_sequence = <<>>
    /\ population1 = <<>>
    /\ population2 = <<>>
    /\ generations = <<>>
    /\ avg_genetic_distances = <<>>
    /\ final_display = <<>>
    /\ reproduce_calls = 0
    /\ split_calls = 0

Init ==
    /\ pc = "askN"
    /\ Blank
    /\ call = NoCall

\* ------------------------------------------------------------- the prompts

\* population_size_N = input(...); while int(population_size_N) <= 0: ask again
AskN ==
    /\ pc = "askN"
    /\ \E typed_value \in TypedSizes(MaxN) :
        /\ population_size_N' = typed_value
        /\ pc' = IF typed_value <= 0 THEN "askN" ELSE "askL"
    /\ UNCHANGED <<num_of_base_pairs_L, mutation_rate, generation_g,
                   total_generations_G, list_all_generations, run, call>>

AskL ==
    /\ pc = "askL"
    /\ \E typed_value \in TypedLengths(population_size_N) :
        /\ num_of_base_pairs_L' = typed_value
        /\ pc' = IF typed_value <= 0 THEN "askL" ELSE "askMu"
    /\ UNCHANGED <<population_size_N, mutation_rate, generation_g,
                   total_generations_G, list_all_generations, run, call>>

\* The prompt for the mutation rate with no test of float(mutation_rate) > 1.
AskMuNoUpperTest ==
    /\ pc = "askMu"
    /\ \E typed_value \in TypedRates :
        /\ mutation_rate' = typed_value
        /\ pc' = IF typed_value < 0 THEN "askMu" ELSE "askg"
    /\ UNCHANGED <<population_size_N, num_of_base_pairs_L, generation_g,
                   total_generations_G, list_all_generations, run, call>>

\* while float(mutation_rate) < 0 or float(mutation_rate) > 1: ask again
AskMu ==
    /\ pc = "askMu"
    /\ \E typed_value \in TypedRates :
        /\ mutation_rate' = typed_value
        /\ pc' = IF typed_value < 0 \/ typed_value > One THEN "askMu" ELSE "askg"
    /\ UNCHANGED <<population_size_N, num_of_base_pairs_L, generation_g,
                   total_generations_G, list_all_generations, run, call>>

Askg ==
    /\ pc = "askg"
    /\ \E typed_value \in TypedSizes(MaxG) :
        /\ generation_g' = typed_value
        /\ pc' = IF typed_value <= 0 THEN "askg" ELSE "askG"
    /\ UNCHANGED <<population_size_N, num_of_base_pairs_L, mutation_rate,
                   total_generations_G, list_all_generations, run, call>>

AskG ==
    /\ pc = "askG"
    /\ \E typed_value \in TypedSizes(MaxG) :
        /\ total_generations_G' = typed_value
        /\ pc' = IF typed_value <= 0 THEN "askG" ELSE "askFlag"
    /\ UNCHANGED <<population_size_N, num_of_base_pairs_L, mutation_rate,
                   generation_g, list_all_generations, run, call>>

\* while list_all_generations.upper() != 'Y' and ... != 'N': ask again
AskFlag ==
    /\ pc = "askFlag"
    /\ \E typed_value \in TypedFlags :
        /\ list_all_generations' = typed_value
        /\ pc' = IF Upper(typed_value) # "Y" /\ Upper(typed_value) # "N"
                 THEN "askFlag" ELSE "start"
    /\ UNCHANGED <<population_size_N, num_of_base_pairs_L, mutation_rate,
                   generation_g, total_generations_G, run, call>>

\* ---------------------------------------------------------------- the run

\* The test of the branch with <= for <.
SplitOccursInclusive == generation_g <= total_generations_G

\* The test of the branch always true: main has no branch without a split.
SplitOccursAlways == TRUE

\* if generation_g < total_generations_G: the run splits.
SplitOccurs == generation_g < total_generations_G

\* population_size_N // 2, the division of integers, for population_size_N / 2.
HalfSizeFloored == Whole(population_size_N \div 2)

\* population_size_N / 2, the size handed to genetic_distance after the split.
HalfSize == Div(Whole(population_size_N), Whole(2))

\* The lists are created; main takes one of its two branches.
Start ==
    /\ pc = "start"
    /\ new_generation_sequence' =
           initialize_original_sequence(population_size_N, num_of_base_pairs_L)
    /\ avg_genetic_distances' = <<>>
    /\ generations' = <<>>
    /\ generation_number' = 1
    /\ generation' = 0
    /\ pc' = IF SplitOccurs THEN "pre" ELSE "whole"
    /\ UNCHANGED <<typed, population1, population2, final_display,
                   reproduce_calls, split_calls, call>>

\* One pass that reproduces first and logs the new population.
OnePassAdvanceFirst ==
    /\ new_generation_sequence' \in reproduce(mutation_rate, new_generation_sequence)
    /\ reproduce_calls' = reproduce_calls + 1
    /\ generations' = Append(generations, generation_number)
    /\ avg_genetic_distances' =
           Append(avg_genetic_distances,
                  genetic_distance(new_generation_sequence', Whole(population_size_N),
                                   num_of_base_pairs_L))
    /\ generation_number' = generation_number + 1
    /\ generation' = generation + 1

\* One pass of a loop over a single population: log, then reproduce.
OnePass ==
    /\ generations' = Append(generations, generation_number)
    /\ avg_genetic_distances' =
           Append(avg_genetic_distances,
                  genetic_distance(new_generation_sequence, Whole(population_size_N),
                                   num_of_base_pairs_L))
    /\ new_generation_sequence' \in reproduce(mutation_rate, new_generation_sequence)
    /\ reproduce_calls' = reproduce_calls + 1
    /\ generation_number' = generation_number + 1
    /\ generation' = generation + 1

\* The loop before the split one pass short.
PreSplitPassesShort == generation_g - 1

\* range(0, generation_g): the number of passes before the split.
PreSplitPasses == generation_g

\* for generation in range(0, generation_g): one pass before the split.
PreSplit ==
    /\ pc = "pre"
    /\ generation < PreSplitPasses
    /\ OnePass
    /\ UNCHANGED <<pc, typed, population1, population2, final_display, split_calls, call>>

\* The loop before the split is over: split_populations is called.
Split ==
    /\ pc = "pre"
    /\ generation >= PreSplitPasses
    /\ LET both == split_populations(new_generation_sequence, population_size_N)
       IN  /\ population1' = both[1]
           /\ population2' = both[2]
    /\ split_calls' = split_calls + 1
    /\ generation' = generation_g
    /\ pc' = "post"
    /\ UNCHANGED <<typed, generation_number, new_generation_sequence, generations,
                   avg_genetic_distances, final_display, reproduce_calls, call>>

\* One pass of the loop after the split with a reproduce that writes the new
\* strings into the list it is given and returns that list.
PostSplitInPlace ==
    /\ pc = "post"
    /\ generation < total_generations_G
    /\ generations' = generations \o <<generation_number, generation_number>>
    /\ avg_genetic_distances' =
           avg_genetic_distances
           \o <<genetic_distance(population1, HalfSize, num_of_base_pairs_L),
                genetic_distance(population2, HalfSize, num_of_base_pairs_L)>>
    /\ population1' \in reproduce(mutation_rate, population1)
    /\ population2' \in reproduce(mutation_rate, population2)
    /\ new_generation_sequence' = population2'
    /\ reproduce_calls' = reproduce_calls + 2
    /\ generation_number' = generation_number + 1
    /\ generation' = generation + 1
    /\ UNCHANGED <<pc, typed, final_display, split_calls, call>>

\* One pass of the loop after the split that logs population1 twice.
PostSplitLogsFirstTwice ==
    /\ pc = "post"
    /\ generation < total_generations_G
    /\ generations' = generations \o <<generation_number, generation_number>>
    /\ avg_genetic_distances' =
           avg_genetic_distances
           \o <<genetic_distance(population1, HalfSize, num_of_base_pairs_L),
                genetic_distance(population1, HalfSize, num_of_base_pairs_L)>>
    /\ new_generation_sequence' \in reproduce(mutation_rate, population2)
    /\ reproduce_calls' = reproduce_calls + 2
    /\ generation_number' = generation_number + 1
    /\ generation' = generation + 1
    /\ UNCHANGED <<pc, typed, population1, population2, final_display, split_calls, call>>

\* for generation in range(generation_g, total_generations_G): one pass after
\* the split.  population1 is logged and reproduce(mutation_rate, population1)
\* assigned to new_generation_sequence; then population2 is logged and
\* reproduce(mutation_rate, population2) assigned to new_generation_sequence,
\* which replaces the first list.  Neither population1 nor population2 is
\* assigned.
PostSplit ==
    /\ pc = "post"
    /\ generation < total_generations_G
    /\ generations' = generations \o <<generation_number, generation_number>>
    /\ avg_genetic_distances' =
           avg_genetic_distances
           \o <<genetic_distance(population1, HalfSize, num_of_base_pairs_L),
                genetic_distance(population2, HalfSize, num_of_base_pairs_L)>>
    /\ new_generation_sequence' \in reproduce(mutation_rate, population2)
    /\ reproduce_calls' = reproduce_calls + 2
    /\ generation_number' = generation_number + 1
    /\ generation' = generation + 1
    /\ UNCHANGED <<pc, typed, population1, population2, final_display, split_calls, call>>

\* The loop after the split is over: the last generation is printed when the
\* answer was N, then the log.
FinishSplit ==
    /\ pc = "post"
    /\ generation >= total_generations_G
    /\ final_display' =
           IF Upper(list_all_generations) = "N"
           THEN <<generation_number - 1,
                  population1, genetic_distance(population1, HalfSize, num_of_base_pairs_L),
                  population2, genetic_distance(population2, HalfSize, num_of_base_pairs_L)>>
           ELSE final_display
    /\ pc' = "done"
    /\ UNCHANGED <<typed, generation, generation_number, new_generation_sequence,
                   population1, population2, generations, avg_genetic_distances,
                   reproduce_calls, split_calls, call>>

\* for generation in range(0, total_generations_G): one pass of the run
\* without a split.
Whole1 ==
    /\ pc = "whole"
    /\ generation < total_generations_G
    /\ OnePass
    /\ UNCHANGED <<pc, typed, population1, population2, final_display, split_calls, call>>

FinishWhole ==
    /\ pc = "whole"
    /\ generation >= total_generations_G
    /\ final_display' =
           IF Upper(list_all_generations) = "N"
           THEN <<generation_number - 1,
                  new_generation_sequence,
                  genetic_distance(new_generation_sequence, Whole(population_size_N),
                                   num_of_base_pairs_L)>>
           ELSE final_display
    /\ pc' = "done"
    /\ UNCHANGED <<typed, generation, generation_number, new_generation_sequence,
                   population1, population2, generations, avg_genetic_distances,
                   reproduce_calls, split_calls, call>>

Next ==
    \/ AskN \/ AskL \/ AskMu \/ Askg \/ AskG \/ AskFlag
    \/ Start
    \/ PreSplit \/ Split \/ PostSplit \/ FinishSplit
    \/ Whole1 \/ FinishWhole

Spec == Init /\ [][Next]_vars

\* The steps main takes by itself once the six answers are typed: a statement
\* that can run does run.  An answer is typed when the user types one.
RunNext ==
    \/ Start
    \/ PreSplit \/ Split \/ PostSplit \/ FinishSplit
    \/ Whole1 \/ FinishWhole

SpecLive == Spec /\ WF_vars(RunNext)

\* ---------------------------------------------- a function called on its own

\* The strings of at most max nucleotides.
RECURSIVE Strings(_)
Strings(max) ==
    IF max = 0 THEN {<<>>}
    ELSE LET shorter == Strings(max - 1)
         IN  shorter \cup { Append(string, nucleotide) :
                              string \in shorter, nucleotide \in Nucleotides }

StringsOf(length) == { string \in Strings(length) : Len(string) = length }

\* The populations of at most MaxSites sites: N strings of one length L.
Populations ==
    UNION { UNION { [1..N -> StringsOf(L)] : L \in 1..(MaxSites \div N) } : N \in 1..MaxN }
    \cup {<<>>}

\* The lists of at most MaxCall strings out of "A" and "C".
LongPopulations ==
    UNION { [1..N -> {<<"A">>, <<"C">>}] : N \in 0..MaxCall }

Calls ==
    [op : {"mutate"}, mutation_rate : ValidRates, generation_sequence : Strings(MaxString)]
    \cup [op : {"reproduce"}, mutation_rate : ValidRates, prev_generation : Populations]
    \cup [op : {"split_populations"}, generation_sequence : LongPopulations]
    \cup [op : {"compare_sequences"}, sequence1 : Strings(MaxString),
                                      sequence2 : Strings(MaxString)]

\* A call is chosen; main does not run.
CallInit ==
    /\ pc = "call"
    /\ Blank
    /\ call \in Calls

\* mutate returns, having made the draws likelihoods and choices.
CallMutate ==
    /\ pc = "call"
    /\ call.op = "mutate"
    /\ \E likelihoods \in [1..Len(call.generation_sequence) -> Likelihoods],
          choices \in [1..Len(call.generation_sequence) -> Choices] :
        call' = [op |-> "mutate",
                 mutation_rate |-> call.mutation_rate,
                 generation_sequence |-> call.generation_sequence,
                 likelihoods |-> likelihoods,
                 choices |-> choices,
                 result |-> mutate_with(call.mutation_rate, call.generation_sequence,
                                        likelihoods, choices)]
    /\ pc' = "returned"
    /\ UNCHANGED <<typed, run>>

CallReproduce ==
    /\ pc = "call"
    /\ call.op = "reproduce"
    /\ \E new_generation \in reproduce(call.mutation_rate, call.prev_generation) :
        call' = [op |-> "reproduce",
                 mutation_rate |-> call.mutation_rate,
                 prev_generation |-> call.prev_generation,
                 result |-> new_generation]
    /\ pc' = "returned"
    /\ UNCHANGED <<typed, run>>

\* split_populations is called with the length of the list as population_size_N.
CallSplit ==
    /\ pc = "call"
    /\ call.op = "split_populations"
    /\ call' = [op |-> "split_populations",
                generation_sequence |-> call.generation_sequence,
                result |-> split_populations(call.generation_sequence,
                                             Len(call.generation_sequence))]
    /\ pc' = "returned"
    /\ UNCHANGED <<typed, run>>

\* compare_sequences returns num_differences, or sequence2[index] raises
\* IndexError on the way.
CallCompare ==
    /\ pc = "call"
    /\ call.op = "compare_sequences"
    /\ call' = IF compare_raises(call.sequence1, call.sequence2)
               THEN [op |-> "compare_sequences",
                     sequence1 |-> call.sequence1,
                     sequence2 |-> call.sequence2,
                     error |-> "IndexError"]
               ELSE [op |-> "compare_sequences",
                     sequence1 |-> call.sequence1,
                     sequence2 |-> call.sequence2,
                     error |-> "none",
                     result |-> compare_sequences(call.sequence1, call.sequence2)]
    /\ pc' = "returned"
    /\ UNCHANGED <<typed, run>>

CallNext == CallMutate \/ CallReproduce \/ CallSplit \/ CallCompare

SpecCall == CallInit /\ [][CallNext]_vars

Returned(op) == pc = "returned" /\ call.op = op

\* ------------------------------------------------------------------ claims

\* main is past its prompts and in one of its two branches.
Running == pc \in {"pre", "post", "whole", "done"}

\* split_populations has just returned: no pass after the split has run yet.
JustSplit == pc = "post" /\ generation = generation_g

Ceil2(n) == (n + 1) \div 2
Floor2(n) == n \div 2

Last(list) == list[Len(list)]

\* The indexes of the log that hold generation number k.
Records(k) == { i \in DOMAIN generations : generations[i] = k }

\* C1, as claimed: in a pass after the split that is not the last one, the
\* population measured for each lineage in the next generation is what
\* reproduce returns for that lineage in this one: population1 becomes a list
\* reproduce(mutation_rate, population1) can return, and population2 the list
\* the pass got from reproduce(mutation_rate, population2), which it leaves in
\* new_generation_sequence.
C1_Original ==
    [][(pc = "post" /\ generation' = generation + 1
          /\ generation_number < total_generations_G) =>
         /\ population1' \in reproduce(mutation_rate, population1)
         /\ population2' = new_generation_sequence']_vars

\* C2, as claimed: split_populations is called once, on the population after
\* g - 1 rounds of reproduce.
C2_Original ==
    (Running /\ SplitOccurs) =>
        /\ split_calls <= 1
        /\ (pc = "done" => split_calls = 1)
        /\ (JustSplit => reproduce_calls = generation_g - 1)

\* C2, amended: when g < G, split_populations is called exactly once in the
\* run, and the population it receives is the one after exactly g rounds of
\* reproduce from the initial population, g records being logged before it.
C2_SplitOnceAfterGRounds ==
    (Running /\ SplitOccurs) =>
        /\ split_calls <= 1
        /\ (pc \in {"post", "done"} <=> split_calls = 1)
        /\ (JustSplit =>
              /\ reproduce_calls = generation_g
              /\ Len(generations) = generation_g
              /\ population1 \o population2 = new_generation_sequence)

C2_Witness ==
    /\ JustSplit
    /\ generation_g = 2
    /\ reproduce_calls = 2
    /\ split_calls = 1
    /\ population_size_N = 3
    /\ new_generation_sequence = <<<<"C">>, <<"T">>, <<"G">>>>

\* C3, as claimed: when g < G the log holds one record for each generation
\* number 1..g-1 and two for each generation number g..G-1.
C3_Original ==
    (pc = "done" /\ SplitOccurs) =>
        /\ \A k \in 1..(generation_g - 1) : Cardinality(Records(k)) = 1
        /\ \A k \in generation_g..(total_generations_G - 1) : Cardinality(Records(k)) = 2

\* C3, amended: when g < G the finished log holds exactly one record for each
\* generation number 1..g and exactly two, population 1 then population 2, for
\* each generation number g+1..G, in that order and with nothing else.
C3_LogShape ==
    (pc = "done" /\ SplitOccurs) =>
        LET g == generation_g
            G == total_generations_G
        IN  /\ \A k \in 1..g : Cardinality(Records(k)) = 1
            /\ \A k \in (g + 1)..G : Cardinality(Records(k)) = 2
            /\ generations =
                 [i \in 1..(g + 2 * (G - g)) |-> IF i <= g THEN i ELSE g + ((i - g + 1) \div 2)]
            /\ Len(avg_genetic_distances) = Len(generations)
            /\ \A j \in 1..(G - g) :
                 /\ avg_genetic_distances[g + 2 * j - 1] =
                      genetic_distance(population1, HalfSize, num_of_base_pairs_L)
                 /\ avg_genetic_distances[g + 2 * j] =
                      genetic_distance(population2, HalfSize, num_of_base_pairs_L)

C3_Witness ==
    /\ pc = "done"
    /\ generation_g = 1
    /\ total_generations_G = 3
    /\ population_size_N = 3
    /\ generations = <<1, 2, 2, 3, 3>>
    /\ avg_genetic_distances[2] # avg_genetic_distances[3]

\* C4: when g >= G no split occurs: split_populations is never called, the
\* run keeps one population of N strings, and the finished log holds one record
\* for each generation number 1..G.
C4_NoSplit ==
    (Running /\ generation_g >= total_generations_G) =>
        /\ split_calls = 0
        /\ pc \in {"whole", "done"}
        /\ population1 = <<>>
        /\ population2 = <<>>
        /\ Len(new_generation_sequence) = population_size_N
        /\ (pc = "done" =>
              /\ generations = [i \in 1..total_generations_G |-> i]
              /\ Len(avg_genetic_distances) = total_generations_G)

C4_Witness ==
    /\ pc = "done"
    /\ generation_g = total_generations_G
    /\ total_generations_G = 2
    /\ population_size_N = 2
    /\ split_calls = 0
    /\ generations = <<1, 2>>
    /\ avg_genetic_distances[2] # Whole(0)

\* A step that appends to the log logs the population, or the two, as they
\* are before the step, under the current generation number, and calls
\* reproduce once for each; before the split and without one, the population
\* logged has been through generation_number - 1 calls of reproduce.
MeasureThenAdvance ==
    /\ Len(avg_genetic_distances') = Len(avg_genetic_distances) + 1 =>
         /\ pc \in {"pre", "whole"}
         /\ Last(avg_genetic_distances') =
              genetic_distance(new_generation_sequence, Whole(population_size_N),
                               num_of_base_pairs_L)
         /\ Last(generations') = generation_number
         /\ reproduce_calls = generation_number - 1
         /\ reproduce_calls' = reproduce_calls + 1
    /\ Len(avg_genetic_distances') = Len(avg_genetic_distances) + 2 =>
         /\ pc = "post"
         /\ SubSeq(avg_genetic_distances', Len(avg_genetic_distances) + 1,
                   Len(avg_genetic_distances'))
              = <<genetic_distance(population1, HalfSize, num_of_base_pairs_L),
                  genetic_distance(population2, HalfSize, num_of_base_pairs_L)>>
         /\ SubSeq(generations', Len(generations) + 1, Len(generations'))
              = <<generation_number, generation_number>>
         /\ reproduce_calls' = reproduce_calls + 2
    /\ Len(avg_genetic_distances') \in
         {0, Len(avg_genetic_distances), Len(avg_genetic_distances) + 1,
          Len(avg_genetic_distances) + 2}
    /\ reproduce_calls' # reproduce_calls =>
         Len(avg_genetic_distances') > Len(avg_genetic_distances)

\* C5: every pass of a loop appends the record of generation k before it calls
\* reproduce for generation k, so that the value logged for generation k is that
\* of the population after k - 1 calls of reproduce (before the split), and the
\* record of generation 1 is 0 at every mutation rate.
C5_MeasureThenAdvance ==
    [][/\ MeasureThenAdvance
       /\ Len(avg_genetic_distances') >= 1 => avg_genetic_distances'[1] = Whole(0)]_vars

C5_Witness ==
    /\ pc = "whole"
    /\ mutation_rate = One
    /\ population_size_N = 2
    /\ Len(avg_genetic_distances) = 2
    /\ avg_genetic_distances[1] = Whole(0)
    /\ avg_genetic_distances[2] # Whole(0)

\* C6, as claimed: every logged distance of a lineage after the split is the
\* sum over its pairs divided by the number of strings of that lineage and by
\* L (read off the last two records once a pass after the split has run).
C6_Original ==
    (pc \in {"post", "done"} /\ split_calls > 0 /\ generation > generation_g) =>
        LET n == Len(avg_genetic_distances)
        IN  /\ Len(population1) > 0 =>
                 avg_genetic_distances[n - 1] =
                   genetic_distance(population1, Whole(Len(population1)),
                                    num_of_base_pairs_L)
            /\ Len(population2) > 0 =>
                 avg_genetic_distances[n] =
                   genetic_distance(population2, Whole(Len(population2)),
                                    num_of_base_pairs_L)

\* C7: split_populations called with the length N of its list returns the
\* first ceil(N/2) elements and the remaining floor(N/2), both in the order of
\* the list, so that the first followed by the second is the list.
C7_SplitPositional ==
    Returned("split_populations") =>
        LET list == call.generation_sequence
            N == Len(list)
        IN  /\ call.result[1] = SubSeq(list, 1, Ceil2(N))
            /\ call.result[2] = SubSeq(list, Ceil2(N) + 1, N)
            /\ Len(call.result[1]) = Ceil2(N)
            /\ Len(call.result[2]) = Floor2(N)
            /\ call.result[1] \o call.result[2] = list

C7_Witness ==
    /\ Returned("split_populations")
    /\ Len(call.generation_sequence) = 7
    /\ call.generation_sequence[4] = <<"A">>
    /\ call.generation_sequence[5] = <<"C">>
    /\ Len(call.result[1]) = 4
    /\ Len(call.result[2]) = 3

\* The strings alive: one population before the split and without one, the two
\* populations after it.
LiveCount ==
    IF pc = "post" \/ (pc = "done" /\ split_calls > 0)
    THEN Len(population1) + Len(population2)
    ELSE Len(new_generation_sequence)

\* The list new is as long as the list given, its element i is as long as
\* element i of given and holds at each site either its character or one of
\* C, T, G.
ElementWise(new, given) ==
    /\ Len(new) = Len(given)
    /\ \A i \in 1..Len(given) :
         /\ Len(new[i]) = Len(given[i])
         /\ \A site \in 1..Len(given[i]) :
              new[i][site] \in {given[i][site], "C", "T", "G"}

\* C8: in every state of a run the number of strings alive is N: reproduce
\* returns a list of the length of its input, element i from element i (seen
\* after the split, where the input of the last call is still held), and the
\* split leaves ceil(N/2) and floor(N/2) strings, N in all.
C8_SizeConserved ==
    Running =>
        /\ LiveCount = population_size_N
        /\ pc \in {"pre", "whole"} \/ (pc = "done" /\ split_calls = 0) =>
             ElementWise(new_generation_sequence,
                         initialize_original_sequence(population_size_N, num_of_base_pairs_L))
        /\ split_calls > 0 =>
             /\ Len(population1) = Ceil2(population_size_N)
             /\ Len(population2) = Floor2(population_size_N)
             /\ generation > generation_g =>
                  ElementWise(new_generation_sequence, population2)
             /\ generation = generation_g =>
                  ElementWise(new_generation_sequence,
                              initialize_original_sequence(population_size_N,
                                                           num_of_base_pairs_L))

C8_Witness ==
    /\ pc = "post"
    /\ generation > generation_g
    /\ population_size_N = 3
    /\ Len(population1) = 2
    /\ Len(population2) = 1
    /\ Len(new_generation_sequence) = 1
    /\ new_generation_sequence # population2

\* C9, as claimed: at mutation rate 0 mutate returns its input and reproduce a
\* list equal to its input, whatever is drawn.
C9_Original ==
    /\ (Returned("mutate") /\ call.mutation_rate = 0) =>
          call.result = call.generation_sequence
    /\ (Returned("reproduce") /\ call.mutation_rate = 0) =>
          call.result = call.prev_generation

\* C10, as claimed: at mutation rate 1 every site mutate returns is one of C, T,
\* G and differs from the site of its input.
C10_Original ==
    (Returned("mutate") /\ call.mutation_rate = One) =>
        \A index \in 1..Len(call.generation_sequence) :
            /\ call.result[index] \in {"C", "T", "G"}
            /\ call.result[index] # call.generation_sequence[index]

\* C10, amended: at mutation rate 1, for every input and all draws, every site
\* mutate returns is one of C, T, G, drawn whatever the input holds there: it
\* differs from the input at every site where the input holds A, and is the
\* drawn character, which may be the input's, where the input holds C, T or G.
C10_AllSitesReplaced ==
    (Returned("mutate") /\ call.mutation_rate = One) =>
        /\ Len(call.result) = Len(call.generation_sequence)
        /\ \A index \in 1..Len(call.generation_sequence) :
            /\ call.result[index] \in {"C", "T", "G"}
            /\ call.result[index] = nucleotide_choices[call.choices[index]]
            /\ call.generation_sequence[index] = "A" =>
                 call.result[index] # call.generation_sequence[index]

C10_Witness ==
    /\ Returned("mutate")
    /\ call.mutation_rate = One
    /\ call.generation_sequence = <<"A", "C">>
    /\ call.result = <<"G", "C">>

\* Every site of every string of the list is one of A, C, T, G.
AllSitesIn(list) ==
    \A i \in 1..Len(list) : \A site \in 1..Len(list[i]) : list[i][site] \in Nucleotides

\* The list child has the strings of the list parent, index by index, and no
\* site of parent that is not A is A in child.
NonAKept(parent, child) ==
    /\ Len(child) = Len(parent)
    /\ \A i \in 1..Len(parent) :
         /\ Len(child[i]) = Len(parent[i])
         /\ \A site \in 1..Len(parent[i]) :
              parent[i][site] # "A" => child[i][site] # "A"

\* C11: every step leaves every site of every live string in {A, C, T, G}
\* (a list a step does not assign keeps its sites), and never brings A back: a
\* site that is not A in a string is not A in the string made from it (same
\* index, same lineage) by reproduce in a pass before the split or without
\* one, by split_populations, and by reproduce in a pass after the split, so
\* that it is not A in any later generation, at every mutation rate.
C11_AdenineNeverBack ==
    [][/\ new_generation_sequence' # new_generation_sequence =>
            AllSitesIn(new_generation_sequence')
       /\ population1' # population1 => AllSitesIn(population1')
       /\ population2' # population2 => AllSitesIn(population2')
       /\ (pc \in {"pre", "whole"} /\ generation' = generation + 1) =>
            NonAKept(new_generation_sequence, new_generation_sequence')
       /\ (pc = "pre" /\ pc' = "post") =>
            NonAKept(new_generation_sequence, population1' \o population2')
       /\ (pc = "post") =>
            /\ NonAKept(population1, population1')
            /\ NonAKept(population2, population2')
            /\ generation' = generation + 1 =>
                 NonAKept(population2, new_generation_sequence')]_vars

\* Two passes at rate 1/Ticks: a site mutated in the first is still not A, next
\* to a site that never mutated.
C11_Witness ==
    /\ pc = "whole"
    /\ generation = 2
    /\ mutation_rate = 1
    /\ new_generation_sequence = <<<<"C", "A">>>>
    /\ avg_genetic_distances = <<Whole(0), Whole(0)>>

\* The number of positions at which two strings of one length differ, counted
\* from the front.
RECURSIVE Differences(_, _)
Differences(a, b) ==
    IF a = <<>> THEN 0
    ELSE (IF Head(a) # Head(b) THEN 1 ELSE 0) + Differences(Tail(a), Tail(b))

\* C12: for two strings of one length L over {A, C, T, G}, compare_sequences
\* returns (no error) the number of positions at which they differ, a number of
\* 0..L, and the same number with its arguments exchanged.
C12_CompareSymmetric ==
    (Returned("compare_sequences") /\ Len(call.sequence1) = Len(call.sequence2)) =>
        /\ call.error = "none"
        /\ call.result = Differences(call.sequence1, call.sequence2)
        /\ call.result \in 0..Len(call.sequence1)
        /\ ~compare_raises(call.sequence2, call.sequence1)
        /\ call.result = compare_sequences(call.sequence2, call.sequence1)

C12_Witness ==
    /\ Returned("compare_sequences")
    /\ call.sequence1 = <<"A", "C">>
    /\ call.sequence2 = <<"C", "C">>
    /\ call.result = 1

\* C13, as claimed: compare_sequences of two strings of different lengths ends
\* in an error, whichever of the two is the shorter.
C13_Original ==
    (Returned("compare_sequences") /\ Len(call.sequence1) # Len(call.sequence2)) =>
        call.error # "none"

\* Every string of the list has length L, so that compare_sequences, called by
\* genetic_distance on each pair of the list, gets two strings of one length
\* and does not raise.
AllOfLength(list, L) ==
    /\ \A i \in 1..Len(list) : Len(list[i]) = L
    /\ \A i \in 1..Len(list) : \A j \in (i + 1)..Len(list) :
         /\ Len(list[i]) = Len(list[j])
         /\ ~compare_raises(list[i], list[j])

Identical(list) == \A i \in 1..Len(list) : \A j \in 1..Len(list) : list[i] = list[j]

\* C15: genetic_distance returns exactly 0 for a population whose members are
\* all the same string, and for one of fewer than two members, and no call of
\* a run divides by zero.  Read off the records of a run: the first record, of
\* the initial population; every record of a run with N = 1; the last two
\* records after a pass after the split, of population 1 and population 2,
\* population 2 being empty when N = 1; and the distance printed last.
C15_ZeroDistance ==
    Running =>
        LET n == Len(avg_genetic_distances)
        IN  /\ \A i \in 1..n : avg_genetic_distances[i] # ZeroDivisionError
            /\ n >= 1 => avg_genetic_distances[1] = Whole(0)
            /\ population_size_N = 1 =>
                 \A i \in 1..n : avg_genetic_distances[i] = Whole(0)
            /\ (split_calls > 0 /\ generation > generation_g) =>
                 /\ (Identical(population1) \/ Len(population1) < 2) =>
                      avg_genetic_distances[n - 1] = Whole(0)
                 /\ (Identical(population2) \/ Len(population2) < 2) =>
                      avg_genetic_distances[n] = Whole(0)
            /\ (pc = "done" /\ split_calls = 0 /\ final_display # <<>>) =>
                 /\ final_display[3] # ZeroDivisionError
                 /\ (Identical(new_generation_sequence) \/ Len(new_generation_sequence) < 2) =>
                      final_display[3] = Whole(0)
            /\ (pc = "done" /\ split_calls > 0 /\ final_display # <<>>) =>
                 /\ final_display[3] # ZeroDivisionError
                 /\ final_display[5] # ZeroDivisionError
                 /\ (Identical(population2) \/ Len(population2) < 2) =>
                      final_display[5] = Whole(0)

\* N = 1 is split into one string and none; the record of the empty
\* population 2 is 0.
C15_Witness ==
    /\ pc = "post"
    /\ generation > generation_g
    /\ population_size_N = 1
    /\ population1 = <<<<"G", "C">>>>
    /\ population2 = <<>>
    /\ Last(avg_genetic_distances) = Whole(0)

\* The log of a finished run: two lists of one length, the generation numbers
\* not decreasing and being exactly the values 1..G.
LogComplete ==
    /\ Len(generations) = Len(avg_genetic_distances)
    /\ \A i \in 1..(Len(generations) - 1) : generations[i] <= generations[i + 1]
    /\ { generations[i] : i \in 1..Len(generations) } = 1..total_generations_G

\* C16: once the parameters are accepted the run ends, its loop variable
\* having reached G, whatever is drawn; the two lists of the log have one length
\* in every state; and at the end the generation numbers logged do not decrease
\* and are exactly the values 1..G, with a split or without one.
C16_Terminates ==
    /\ [](Len(generations) = Len(avg_genetic_distances))
    /\ [](pc = "done" =>
            /\ generation = total_generations_G
            /\ generation_number = total_generations_G + 1
            /\ LogComplete)
    /\ (pc = "start") ~> (pc = "done")

\* A run with a split and one without, both at their end.
C16_Witness ==
    /\ pc = "done"
    /\ total_generations_G = 3
    /\ generation_g = 2
    /\ generations = <<1, 2, 3, 3>>
    /\ Len(avg_genetic_distances) = 4
    /\ mutation_rate = 1

C19_Original ==
    (pc = "done" /\ Upper(list_all_generations) = "N") =>
        LET n == Len(avg_genetic_distances)
        IN  /\ final_display[1] = total_generations_G
            /\ generations[n] = total_generations_G
            /\ split_calls = 0 => final_display[3] = avg_genetic_distances[n]
            /\ split_calls > 0 =>
                 /\ final_display[3] = avg_genetic_distances[n - 1]
                 /\ final_display[5] = avg_genetic_distances[n]

\* The prompts of main, in their order.
Prompts == <<"askN", "askL", "askMu", "askg", "askG", "askFlag">>

\* The prompt of that position is answered with an accepted value.
Accepted(position) ==
    CASE position = 1 -> population_size_N > 0
      [] position = 2 -> num_of_base_pairs_L > 0
      [] position = 3 -> 0 <= mutation_rate /\ mutation_rate <= One
      [] position = 4 -> generation_g > 0
      [] position = 5 -> total_generations_G > 0
      [] position = 6 -> Upper(list_all_generations) \in {"Y", "N"}

\* Nothing is typed yet at the prompt of that position.
Untyped(position) ==
    CASE position = 1 -> population_size_N = 0
      [] position = 2 -> num_of_base_pairs_L = 0
      [] position = 3 -> mutation_rate = 0
      [] position = 4 -> generation_g = 0
      [] position = 5 -> total_generations_G = 0
      [] position = 6 -> list_all_generations = ""

====
